---------------------------- MODULE Spec2Model ----------------------------
(***************************************************************************)
(* A model of ocr_handwriting.py: the style index (classify_spans), the    *)
(* word classifier (word_is_handwritten) and the reporting loops of main   *)
(* (per-page statistics, per-line tags and confidences, the wrapped        *)
(* handwritten text, the summary); and of the runs of the six scripts up   *)
(* to their requests to the remote services (the checks of credentials,    *)
(* ids, file argument and file), with the train confirmation and the field *)
(* grouping of custom_extract_model.py.                                    *)
(*                                                                         *)
(* Representation.  An optional value (Python None / a value) is a         *)
(* sequence of length 0 or 1, so None and the empty list coincide, as they *)
(* do under the truth tests the code applies (`if not styles`,             *)
(* `page.words or []`, `if style.spans`).  A confidence is an integer      *)
(* number of hundredths; a mean is kept as the exact fraction num/den.     *)
(***************************************************************************)
EXTENDS Integers, Sequences, FiniteSets, TLC

VARIABLES
    result,           \* the analysed document: [styles, pages]
    pc,               \* position of main
    span_map,         \* [handwritten, printed]: the two offset sets
    style_idx,        \* classify_spans: index of the next style
    handwritten_offsets, printed_offsets,   \* classify_spans locals
    page_idx, word_idx, line_idx,           \* loop positions of main
    total_words, total_hw_words, all_confidences,
    hw_words, pr_words, unknown_words,      \* per-page word lists
    wih,              \* frame of the last word_is_handwritten call in the word loop
    page_reports,     \* what is printed per page
    line_reports,     \* what is printed per line
    summary,          \* what the summary prints (None until printed)
    transcript,       \* what the handwritten-text section prints, in order
    calls,            \* the calls made: of classify_spans (a count) and of
                      \* word_is_handwritten (the <<page, word>> of each, in order)
    invocation,       \* a script run: the script, its arguments and environment
    script            \* a script run: its position, requests sent, exit status

vars == <<result, pc, span_map, style_idx, handwritten_offsets, printed_offsets,
          page_idx, word_idx, line_idx, total_words, total_hw_words,
          all_confidences, hw_words, pr_words, unknown_words, wih,
          page_reports, line_reports, summary, transcript, calls,
          invocation, script>>

---------------------------------------------------------------------------
(* Values *)

None == <<>>
Some(x) == <<x>>

Span(o, l) == [offset |-> o, length |-> l]
Style(h, spans) == [is_handwritten |-> h, spans |-> spans]
Word(c, s, conf) == [content |-> c, span |-> s, confidence |-> conf]
\* `words` is the line's own word list (indices into the page's words); the
\* service's line object carries only spans, and main never reads `words`.
Line(spans, words) == [spans |-> spans, words |-> words]
Page(n, words, lines) == [page_number |-> n, words |-> words, lines |-> lines]

Handwritten == Some(TRUE)
Printed == Some(FALSE)
Unknown == None

SeqsUpTo(S, n) == UNION {[1..k -> S] : k \in 0..n}

\* range(span.offset, span.offset + span.length)
SpanRange(span) == span.offset .. (span.offset + span.length - 1)

\* `x or 0`
OrZero(x) == IF x = None THEN 0 ELSE x[1]

\* total / n when n > 0, else 0, as an exact fraction
Mean(total, n) == IF n = 0 THEN [num |-> 0, den |-> 1] ELSE [num |-> total, den |-> n]
RatEq(a, b) == a.num * b.den = b.num * a.den

RECURSIVE SumConfidence(_)
\* sum(w.confidence or 0 for w in ws)
SumConfidence(ws) ==
    IF ws = <<>> THEN 0
    ELSE OrZero(Head(ws).confidence) + SumConfidence(Tail(ws))

RECURSIVE SumSeq(_)
\* sum(xs)
SumSeq(xs) == IF xs = <<>> THEN 0 ELSE Head(xs) + SumSeq(Tail(xs))

---------------------------------------------------------------------------
(* classify_spans *)

RECURSIVE AddSpans(_, _)
\* for span in style.spans: for offset in range(...): target.add(offset)
AddSpans(target, spans) ==
    IF spans = <<>> THEN target
    ELSE AddSpans(target \cup SpanRange(Head(spans)), Tail(spans))

\* One iteration of `for style in styles`: the pair of sets afterwards.
StyleIgnoresUnknownMutant(hw, pr, style) ==
    IF style.is_handwritten = Handwritten
    THEN <<AddSpans(hw, style.spans), pr>>
    ELSE <<hw, AddSpans(pr, style.spans)>>

ClassifyOneStyle(hw, pr, style) ==
    IF style.is_handwritten = None THEN <<hw, pr>>
    ELSE IF style.is_handwritten = Handwritten
         THEN <<AddSpans(hw, style.spans), pr>>
         ELSE <<hw, AddSpans(pr, style.spans)>>

---------------------------------------------------------------------------
(* word_is_handwritten *)

\* A count that takes the range to include its end offset.
CountInInclusiveMutant(start, end, offsets) ==
    Cardinality({o \in start..end : o \in offsets})

RECURSIVE CountIn(_, _, _)
\* sum(1 for o in range(start, end) if o in offsets)
CountIn(start, end, offsets) ==
    IF start >= end THEN 0
    ELSE (IF start \in offsets THEN 1 ELSE 0) + CountIn(start + 1, end, offsets)

\* A verdict that is Unknown whenever both coverages are met, or none is.
VerdictUnknownOnBothMutant(hw_count, pr_count) ==
    IF hw_count > 0 /\ pr_count > 0 THEN None
    ELSE IF hw_count > pr_count THEN Handwritten
    ELSE IF pr_count > hw_count THEN Printed
    ELSE None

VerdictTieMutant(hw_count, pr_count) ==
    IF hw_count > pr_count THEN Handwritten ELSE Printed

VerdictOf(hw_count, pr_count) ==
    IF hw_count > pr_count THEN Handwritten
    ELSE IF pr_count > hw_count THEN Printed
    ELSE None

\* A classifier that takes a word without span for printed.
WordWithoutSpanIsPrintedMutant(word, sm) ==
    IF word.span = None
    THEN [hw_count |-> 0, pr_count |-> 0, ret |-> Printed]
    ELSE LET start == word.span[1].offset
             end == start + word.span[1].length
             hw_count == CountIn(start, end, sm.handwritten)
             pr_count == CountIn(start, end, sm.printed)
         IN [hw_count |-> hw_count, pr_count |-> pr_count,
             ret |-> VerdictOf(hw_count, pr_count)]

\* The frame of one call: the counts (0 when the early return is taken) and
\* the returned value.
word_is_handwritten(word, sm) ==
    IF word.span = None
    THEN [hw_count |-> 0, pr_count |-> 0, ret |-> None]
    ELSE LET start == word.span[1].offset
             end == start + word.span[1].length
             hw_count == CountIn(start, end, sm.handwritten)
             pr_count == CountIn(start, end, sm.printed)
         IN [hw_count |-> hw_count, pr_count |-> pr_count,
             ret |-> VerdictOf(hw_count, pr_count)]

---------------------------------------------------------------------------
(* main: the line loop's expressions *)

\* any(w.span.offset >= s.offset and w.span.offset < s.offset + s.length
\*     for s in line.spans)
StartsInside(w, spans) ==
    \E k \in 1..Len(spans) :
        /\ w.span[1].offset >= spans[k].offset
        /\ w.span[1].offset < spans[k].offset + spans[k].length

\* The condition of the comprehension, for the word at index i.
InLine(words, line, i) ==
    /\ words[i].span # None
    /\ line.spans # None
    /\ StartsInside(words[i], line.spans)

RECURSIVE LineWordsFrom(_, _, _)
LineWordsFrom(words, line, i) ==
    IF i > Len(words) THEN <<>>
    ELSE (IF InLine(words, line, i) THEN <<i>> ELSE <<>>)
         \o LineWordsFrom(words, line, i + 1)

\* line_words = [w for w in words if w.span and line.spans and any(...)]
\* The list holds references to the page's words: it is kept as their indices.
LineWords(words, line) == LineWordsFrom(words, line, 1)

\* sum(1 for w in line_words if word_is_handwritten(w, span_map) is True)
LineHwCount(words, lw, sm) ==
    Cardinality({k \in 1..Len(lw) : word_is_handwritten(words[lw[k]], sm).ret = Handwritten})

\* len(line_words) or 1
OrOne(n) == IF n = 0 THEN 1 ELSE n

LineTagAtHalfMutant(hw_count, total_in_line) ==
    IF 2 * hw_count >= total_in_line THEN "HW" ELSE "PR"

\* hw_count / total_in_line > 0.5, on integers: 2 * hw_count > total_in_line
LineTag(hw_count, total_in_line) ==
    IF 2 * hw_count > total_in_line THEN "HW" ELSE "PR"

LineConfSkipsMissingMutant(words, lw) ==
    LET ws == [k \in 1..Len(lw) |-> words[lw[k]]]
        have == Cardinality({k \in 1..Len(lw) : ws[k].confidence # None})
    IN Mean(SumConfidence(ws), have)

\* (sum(w.confidence or 0 for w in line_words) / len(line_words)) if line_words else 0
LineConf(words, lw) ==
    Mean(SumConfidence([k \in 1..Len(lw) |-> words[lw[k]]]), Len(lw))

---------------------------------------------------------------------------
(* main: the per-page and summary expressions *)

PageConfOverClassifiedMutant(words, hw, pr) ==
    Mean(SumConfidence(words), Len(hw) + Len(pr))

\* (sum(w.confidence or 0 for w in words) / len(words)) if words else 0
PageConf(words, hw, pr) == Mean(SumConfidence(words), Len(words))

\* total_words - total_hw_words
SummaryPrinted(tw, thw) == tw - thw

RECURSIVE ProductOfDens(_)
ProductOfDens(ms) == IF ms = <<>> THEN 1 ELSE Head(ms).den * ProductOfDens(Tail(ms))

\* The mean of the fractions ms (0 for none), as an exact fraction.
MeanOfMeans(ms) ==
    LET d == ProductOfDens(ms)
    IN Mean(SumSeq([k \in 1..Len(ms) |-> ms[k].num * (d \div ms[k].den)]), d * Len(ms))

\* A summary that averages the pages' means.
SummaryMeanOfPageMeansMutant(confs, reports) ==
    MeanOfMeans([k \in 1..Len(reports) |-> reports[k].page_conf])

\* A summary that divides without looking at the number of words.
SummaryConfUnguardedMutant(confs, reports) == [num |-> SumSeq(confs), den |-> Len(confs)]

\* sum(all_confidences) / len(all_confidences) if all_confidences else 0
\* (the page reports are not read)
SummaryConf(confs, reports) == Mean(SumSeq(confs), Len(confs))

---------------------------------------------------------------------------
(* main: the handwritten-text section.  A text is a string. *)

MaxLineWidth == 80
Indent == "    "

\* The whitespace of str.split() and str.strip(); of it, only the blank
\* occurs in the texts main builds.
IsSpace(c) == c = " "

\* not s.strip()
IsBlank(s) == \A i \in 1..Len(s) : IsSpace(SubSeq(s, i, i))

RECURSIVE JoinWithoutBlankMutant(_)
\* A join that puts nothing between the words.
JoinWithoutBlankMutant(ss) ==
    IF ss = <<>> THEN "" ELSE ss[1] \o JoinWithoutBlankMutant(Tail(ss))

RECURSIVE Join(_)
\* " ".join(ss)
Join(ss) ==
    IF ss = <<>> THEN ""
    ELSE IF Len(ss) = 1 THEN ss[1]
    ELSE ss[1] \o " " \o Join(Tail(ss))

\* The positions of the blanks of s at or after i, and that of the end of s.
StopsFrom(s, i) == {j \in i..Len(s) : IsSpace(SubSeq(s, j, j))} \cup {Len(s) + 1}
Least(S) == CHOOSE x \in S : \A y \in S : x <= y

RECURSIVE SplitFrom(_, _)
\* s.split(), from the i-th character on: the maximal runs of characters
\* that are not whitespace, in order
SplitFrom(s, i) ==
    IF i > Len(s) THEN <<>>
    ELSE LET stop == Least(StopsFrom(s, i))
         IN (IF stop = i THEN <<>> ELSE <<SubSeq(s, i, stop - 1)>>)
            \o SplitFrom(s, stop + 1)

Split(s) == SplitFrom(s, 1)

RECURSIVE HwOnPageFrom(_, _, _)
HwOnPageFrom(words, sm, i) ==
    IF i > Len(words) THEN <<>>
    ELSE (IF word_is_handwritten(words[i], sm).ret = Handwritten THEN <<i>> ELSE <<>>)
         \o HwOnPageFrom(words, sm, i + 1)

\* A section that takes every word of the page, whatever its verdict.
HwOnPageTakesEveryWordMutant(words, sm) == [i \in 1..Len(words) |-> i]

\* hw_on_page = [w for w in words if word_is_handwritten(w, span_map) is True]
\* (kept as the indices of the words)
HwOnPage(words, sm) == HwOnPageFrom(words, sm, 1)

RECURSIVE WrapFromDropsAtBreakMutant(_, _, _, _)
\* A wrap that loses the word at which it breaks the line.
WrapFromDropsAtBreakMutant(words_list, k, line, out) ==
    IF k > Len(words_list)
    THEN (IF IsBlank(line) THEN out ELSE Append(out, line))
    ELSE IF Len(line) + Len(words_list[k]) + 1 > MaxLineWidth
         THEN WrapFromDropsAtBreakMutant(words_list, k + 1, Indent, Append(out, line))
         ELSE WrapFromDropsAtBreakMutant(words_list, k + 1, line \o words_list[k] \o " ", out)

RECURSIVE WrapFrom(_, _, _, _)
\* `for word in words_list` from the k-th word on, then the last
\* `if line.strip(): print(line)`; out holds the lines printed so far.
WrapFrom(words_list, k, line, out) ==
    IF k > Len(words_list)
    THEN (IF IsBlank(line) THEN out ELSE Append(out, line))
    ELSE IF Len(line) + Len(words_list[k]) + 1 > MaxLineWidth
         THEN WrapFrom(words_list, k + 1, Indent \o words_list[k] \o " ", Append(out, line))
         ELSE WrapFrom(words_list, k + 1, line \o words_list[k] \o " ", out)

\* line = "    "; for word in words_list: ...; if line.strip(): print(line)
Wrap(words_list) == WrapFrom(words_list, 1, Indent, <<>>)

\* One thing the section prints: the section's heading, a page's heading
\* (with the number of handwritten words and their mean confidence), a
\* wrapped line of text, or the empty line that closes a page.
Emitted(kind, p, n, conf, text) ==
    [kind |-> kind, page |-> p, words |-> n, avg_conf |-> conf, text |-> text]

NoConf == [num |-> 0, den |-> 1]

SectionHeading == Emitted("section", 0, 0, NoConf, "--- HANDWRITTEN TEXT (extracted) ---")

TranscriptOfPageAlwaysMutant(p, words, sm) ==
    LET hw_on_page == HwOnPage(words, sm)
        hw == [k \in 1..Len(hw_on_page) |-> words[hw_on_page[k]]]
        lines == Wrap(Split(Join([k \in 1..Len(hw) |-> hw[k].content])))
    IN <<Emitted("header", p, Len(hw), Mean(SumConfidence(hw), Len(hw)), "")>>
       \o [k \in 1..Len(lines) |-> Emitted("line", p, 0, NoConf, lines[k])]
       \o <<Emitted("blank", p, 0, NoConf, "")>>

\* The body of `for page in result.pages` of the section, for the page of
\* index p: what it prints, in order.
TranscriptOfPage(p, words, sm) ==
    LET hw_on_page == HwOnPage(words, sm)
    IN IF hw_on_page = <<>> THEN <<>>
       ELSE LET hw == [k \in 1..Len(hw_on_page) |-> words[hw_on_page[k]]]
                hw_text == Join([k \in 1..Len(hw) |-> hw[k].content])
                avg_conf == [num |-> SumConfidence(hw), den |-> Len(hw)]
                lines == Wrap(Split(hw_text))
            IN <<Emitted("header", p, Len(hw), avg_conf, "")>>
               \o [k \in 1..Len(lines) |-> Emitted("line", p, 0, NoConf, lines[k])]
               \o <<Emitted("blank", p, 0, NoConf, "")>>

---------------------------------------------------------------------------
(* main *)

CurPage == result.pages[page_idx]
\* words = page.words or [];  lines = page.lines or []
CurWords == CurPage.words
CurLines == CurPage.lines

\* span_map = classify_spans(result.styles): entry, up to the empty-styles return
ClassifySpansEntry ==
    /\ pc = "classify_spans"
    /\ calls' = [calls EXCEPT !.classify_spans = @ + 1]
    /\ handwritten_offsets' = {}
    /\ printed_offsets' = {}
    /\ IF result.styles = None
       THEN /\ span_map' = [handwritten |-> {}, printed |-> {}]
            /\ pc' = "page_loop"
            /\ UNCHANGED style_idx
       ELSE /\ style_idx' = 1
            /\ pc' = "style_loop"
            /\ UNCHANGED span_map
    /\ UNCHANGED <<result, page_idx, word_idx, line_idx, total_words,
                   total_hw_words, all_confidences, hw_words, pr_words,
                   unknown_words, wih, page_reports, line_reports, summary, transcript, invocation, script>>

\* one iteration of `for style in styles`
ClassifyStyle ==
    /\ pc = "style_loop"
    /\ style_idx <= Len(result.styles)
    /\ LET r == ClassifyOneStyle(handwritten_offsets, printed_offsets,
                                 result.styles[style_idx])
       IN /\ handwritten_offsets' = r[1]
          /\ printed_offsets' = r[2]
    /\ style_idx' = style_idx + 1
    /\ UNCHANGED <<result, pc, span_map, page_idx, word_idx, line_idx,
                   total_words, total_hw_words, all_confidences, hw_words,
                   pr_words, unknown_words, wih, page_reports, line_reports,
                   summary, transcript, calls, invocation, script>>

\* return {"handwritten": ..., "printed": ...}
ClassifySpansReturn ==
    /\ pc = "style_loop"
    /\ style_idx > Len(result.styles)
    /\ span_map' = [handwritten |-> handwritten_offsets, printed |-> printed_offsets]
    /\ pc' = "page_loop"
    /\ UNCHANGED <<result, style_idx, handwritten_offsets, printed_offsets,
                   page_idx, word_idx, line_idx, total_words, total_hw_words,
                   all_confidences, hw_words, pr_words, unknown_words, wih,
                   page_reports, line_reports, summary, transcript, calls, invocation, script>>

\* for page in result.pages: the head of the body, up to the word loop
PageBegin ==
    /\ pc = "page_loop"
    /\ page_idx <= Len(result.pages)
    /\ total_words' = total_words + Len(CurWords)
    /\ hw_words' = <<>>
    /\ pr_words' = <<>>
    /\ unknown_words' = <<>>
    /\ word_idx' = 1
    /\ pc' = "word_loop"
    /\ UNCHANGED <<result, span_map, style_idx, handwritten_offsets,
                   printed_offsets, page_idx, line_idx, total_hw_words,
                   all_confidences, wih, page_reports, line_reports, summary, transcript, calls, invocation, script>>

\* A word loop that stores `word.confidence or 0` back into the word.
ClassifyWordNormalisesInPlaceMutant ==
    /\ pc = "word_loop"
    /\ word_idx <= Len(CurWords)
    /\ LET word == CurWords[word_idx]
           call == word_is_handwritten(word, span_map)
       IN /\ all_confidences' = Append(all_confidences, OrZero(word.confidence))
          /\ calls' = [calls EXCEPT !.word_is_handwritten = Append(@, <<page_idx, word_idx>>)]
          /\ result' = [result EXCEPT !.pages[page_idx].words[word_idx].confidence =
                                          Some(OrZero(word.confidence))]
          /\ wih' = Some([page |-> page_idx, word |-> word_idx,
                          hw_count |-> call.hw_count, pr_count |-> call.pr_count,
                          ret |-> call.ret])
          /\ IF call.ret = Handwritten
             THEN /\ hw_words' = Append(hw_words, word_idx)
                  /\ UNCHANGED <<pr_words, unknown_words>>
             ELSE IF call.ret = Printed
             THEN /\ pr_words' = Append(pr_words, word_idx)
                  /\ UNCHANGED <<hw_words, unknown_words>>
             ELSE /\ unknown_words' = Append(unknown_words, word_idx)
                  /\ UNCHANGED <<hw_words, pr_words>>
    /\ word_idx' = word_idx + 1
    /\ UNCHANGED <<pc, span_map, style_idx, handwritten_offsets,
                   printed_offsets, page_idx, line_idx, total_words,
                   total_hw_words, page_reports, line_reports, summary, transcript, invocation, script>>

\* one iteration of `for word in words`
ClassifyWord ==
    /\ pc = "word_loop"
    /\ word_idx <= Len(CurWords)
    /\ LET word == CurWords[word_idx]
           call == word_is_handwritten(word, span_map)
       IN /\ all_confidences' = Append(all_confidences, OrZero(word.confidence))
          /\ calls' = [calls EXCEPT !.word_is_handwritten = Append(@, <<page_idx, word_idx>>)]
          /\ wih' = Some([page |-> page_idx, word |-> word_idx,
                          hw_count |-> call.hw_count, pr_count |-> call.pr_count,
                          ret |-> call.ret])
          /\ IF call.ret = Handwritten
             THEN /\ hw_words' = Append(hw_words, word_idx)
                  /\ UNCHANGED <<pr_words, unknown_words>>
             ELSE IF call.ret = Printed
             THEN /\ pr_words' = Append(pr_words, word_idx)
                  /\ UNCHANGED <<hw_words, unknown_words>>
             ELSE /\ unknown_words' = Append(unknown_words, word_idx)
                  /\ UNCHANGED <<hw_words, pr_words>>
    /\ word_idx' = word_idx + 1
    /\ UNCHANGED <<result, pc, span_map, style_idx, handwritten_offsets,
                   printed_offsets, page_idx, line_idx, total_words,
                   total_hw_words, page_reports, line_reports, summary, transcript, invocation, script>>

\* after the word loop: total_hw_words, page_conf and the page's printed block
PageStats ==
    /\ pc = "word_loop"
    /\ word_idx > Len(CurWords)
    /\ total_hw_words' = total_hw_words + Len(hw_words)
    /\ page_reports' = Append(page_reports,
           [page_number |-> CurPage.page_number,
            lines |-> Len(CurLines),
            words |-> Len(CurWords),
            page_conf |-> PageConf(CurWords, hw_words, pr_words),
            handwritten |-> Len(hw_words),
            printed |-> Len(pr_words),
            unclassified |-> Len(unknown_words)])
    /\ line_idx' = 1
    /\ pc' = "line_loop"
    /\ UNCHANGED <<result, span_map, style_idx, handwritten_offsets,
                   printed_offsets, page_idx, word_idx, total_words,
                   all_confidences, hw_words, pr_words, unknown_words, wih,
                   line_reports, summary, transcript, calls, invocation, script>>

\* one iteration of `for line_idx, line in enumerate(lines)`
AggregateLine ==
    /\ pc = "line_loop"
    /\ line_idx <= Len(CurLines)
    /\ LET line == CurLines[line_idx]
           line_words == LineWords(CurWords, line)
           hw_count == LineHwCount(CurWords, line_words, span_map)
           total_in_line == OrOne(Len(line_words))
       IN /\ line_reports' = Append(line_reports,
                 [page |-> page_idx, line |-> line_idx,
                  line_words |-> line_words,
                  hw_count |-> hw_count,
                  total_in_line |-> total_in_line,
                  tag |-> LineTag(hw_count, total_in_line),
                  line_conf |-> LineConf(CurWords, line_words)])
          \* hw_count calls word_is_handwritten(w, span_map) for each w of line_words
          /\ calls' = [calls EXCEPT !.word_is_handwritten =
                          @ \o [k \in 1..Len(line_words) |-> <<page_idx, line_words[k]>>]]
    /\ line_idx' = line_idx + 1
    /\ UNCHANGED <<result, pc, span_map, style_idx, handwritten_offsets,
                   printed_offsets, page_idx, word_idx, total_words,
                   total_hw_words, all_confidences, hw_words, pr_words,
                   unknown_words, wih, page_reports, summary, transcript, invocation, script>>

\* the end of the page loop's body (also when the page has no lines)
PageEnd ==
    /\ pc = "line_loop"
    /\ line_idx > Len(CurLines)
    /\ page_idx' = page_idx + 1
    /\ pc' = "page_loop"
    /\ UNCHANGED <<result, span_map, style_idx, handwritten_offsets,
                   printed_offsets, word_idx, line_idx, total_words,
                   total_hw_words, all_confidences, hw_words, pr_words,
                   unknown_words, wih, page_reports, line_reports, summary, transcript, calls, invocation, script>>

\* after the page loop: `if total_hw_words > 0` and the section's heading
TranscriptBegin ==
    /\ pc = "page_loop"
    /\ page_idx > Len(result.pages)
    /\ IF total_hw_words > 0
       THEN /\ transcript' = <<SectionHeading>>
            /\ page_idx' = 1
            /\ pc' = "transcript_loop"
       ELSE /\ pc' = "summary"
            /\ UNCHANGED <<transcript, page_idx>>
    /\ UNCHANGED <<result, span_map, style_idx, handwritten_offsets,
                   printed_offsets, word_idx, line_idx, total_words,
                   total_hw_words, all_confidences, hw_words, pr_words,
                   unknown_words, wih, page_reports, line_reports, summary, calls, invocation, script>>

\* one iteration of the section's `for page in result.pages`
TranscriptPage ==
    /\ pc = "transcript_loop"
    /\ page_idx <= Len(result.pages)
    /\ transcript' = transcript \o TranscriptOfPage(page_idx, CurWords, span_map)
    \* hw_on_page calls word_is_handwritten(w, span_map) for each w of words
    /\ calls' = [calls EXCEPT !.word_is_handwritten =
                    @ \o [i \in 1..Len(CurWords) |-> <<page_idx, i>>]]
    /\ page_idx' = page_idx + 1
    /\ UNCHANGED <<result, pc, span_map, style_idx, handwritten_offsets,
                   printed_offsets, word_idx, line_idx, total_words,
                   total_hw_words, all_confidences, hw_words, pr_words,
                   unknown_words, wih, page_reports, line_reports, summary, invocation, script>>

\* the end of the section's loop
TranscriptEnd ==
    /\ pc = "transcript_loop"
    /\ page_idx > Len(result.pages)
    /\ pc' = "summary"
    /\ UNCHANGED <<result, span_map, style_idx, handwritten_offsets,
                   printed_offsets, page_idx, word_idx, line_idx, total_words,
                   total_hw_words, all_confidences, hw_words, pr_words,
                   unknown_words, wih, page_reports, line_reports, summary,
                   transcript, calls, invocation, script>>

\* --- SUMMARY ---
Summary ==
    /\ pc = "summary"
    /\ summary' = Some([pages |-> Len(result.pages),
                        total_words |-> total_words,
                        handwritten_words |-> total_hw_words,
                        printed_words |-> SummaryPrinted(total_words, total_hw_words),
                        avg_conf |-> SummaryConf(all_confidences, page_reports)])
    /\ pc' = "done"
    /\ UNCHANGED <<result, span_map, style_idx, handwritten_offsets,
                   printed_offsets, page_idx, word_idx, line_idx, total_words,
                   total_hw_words, all_confidences, hw_words, pr_words,
                   unknown_words, wih, page_reports, line_reports, transcript, calls, invocation, script>>

Next ==
    \/ ClassifySpansEntry
    \/ ClassifyStyle
    \/ ClassifySpansReturn
    \/ PageBegin
    \/ ClassifyWord
    \/ PageStats
    \/ AggregateLine
    \/ PageEnd
    \/ TranscriptBegin
    \/ TranscriptPage
    \/ TranscriptEnd
    \/ Summary

\* The locals of main, at position `at` of a run over the document doc.
MainAt(doc, at) ==
    /\ result = doc
    /\ pc = at
    /\ span_map = [handwritten |-> {}, printed |-> {}]
    /\ style_idx = 1
    /\ handwritten_offsets = {}
    /\ printed_offsets = {}
    /\ page_idx = 1
    /\ word_idx = 1
    /\ line_idx = 1
    /\ total_words = 0
    /\ total_hw_words = 0
    /\ all_confidences = <<>>
    /\ hw_words = <<>>
    /\ pr_words = <<>>
    /\ unknown_words = <<>>
    /\ wih = None
    /\ page_reports = <<>>
    /\ line_reports = <<>>
    /\ summary = None
    /\ transcript = <<>>
    /\ calls = [classify_spans |-> 0, word_is_handwritten |-> <<>>]

\* The state when main reaches `span_map = classify_spans(result.styles)`.
InitWith(doc) ==
    /\ MainAt(doc, "classify_spans")
    /\ invocation = None
    /\ script = None

---------------------------------------------------------------------------
(* Documents.  Each family is the result of one analysis, bounded; main    *)
(* runs the same way on all of them.                                       *)

\* Style-index documents: every list of at most IdxMaxStyles styles that
\* hold at most IdxMaxSpans spans between them, the spans being [0,1), [0,2),
\* [1,2) and [1,3); one page of one word (over the same spans, or without
\* span) and one line.
IdxMaxStyles == 2
IdxMaxSpans == 2

IdxSpans == {Span(0, 1), Span(0, 2), Span(1, 1), Span(1, 2)}
IdxWords == {Word("w", s, Some(90)) : s \in {None} \cup {Some(sp) : sp \in IdxSpans}}
IdxLine == Line(<<Span(0, 3)>>, <<1>>)

RECURSIVE SumFirst(_, _)
\* cnt[1] + ... + cnt[i]
SumFirst(cnt, i) == IF i = 0 THEN 0 ELSE cnt[i] + SumFirst(cnt, i - 1)

\* The styles of classifications kinds[i] that hold, in order, cnt[i] of the spans of flat.
StylesOf(kinds, cnt, flat) ==
    [i \in DOMAIN kinds |->
        Style(kinds[i], SubSeq(flat, SumFirst(cnt, i - 1) + 1, SumFirst(cnt, i)))]

InitIndex ==
    \E n \in 0..IdxMaxStyles : \E cnt \in [1..n -> 0..IdxMaxSpans] :
        /\ SumFirst(cnt, n) <= IdxMaxSpans
        /\ \E kinds \in [1..n -> {None, Handwritten, Printed}] :
           \E flat \in [1..SumFirst(cnt, n) -> IdxSpans] :
           \E w \in IdxWords :
               InitWith([styles |-> StylesOf(kinds, cnt, flat),
                         pages |-> <<Page(1, <<w>>, <<IdxLine>>)>>])
SpecIndex == InitIndex /\ [][Next]_vars

\* Line documents: one page under a fixed style list (offset 0 handwritten,
\* offset 1 printed, offset 2 and beyond uncovered); word lists of up to
\* LineMaxWords words over two kinds of word and of up to LineFewWords words
\* over every kind; up to LineMaxLines lines, each holding a run of
\* consecutive words.
LineMaxWords == 5
LineFewWords == 2
LineMaxLines == 2

LineStyles == <<Style(Handwritten, <<Span(0, 1)>>), Style(Printed, <<Span(1, 1)>>)>>
LineWordSpans == {None, Some(Span(0, 1)), Some(Span(1, 1))}
LineWordKinds == {Word("w", s, c) : s \in LineWordSpans, c \in {None, Some(50)}}
LineTwoKinds == {Word("w", Some(Span(0, 1)), Some(100)), Word("w", Some(Span(1, 1)), Some(50))}
LineWordLists == SeqsUpTo(LineTwoKinds, LineMaxWords) \cup SeqsUpTo(LineWordKinds, LineFewWords)
LineSpanChoices == {None, <<Span(0, 1)>>, <<Span(1, 1)>>, <<Span(0, 2)>>}

\* The ways to cut words 1..n into m consecutive runs: the last index of each run.
Cuts(n, m) ==
    {c \in [1..m -> 0..n] :
        /\ \A j \in 1..m : j < m => c[j] <= c[j + 1]
        /\ m > 0 => c[m] = n}
Run(c, j) == LET lo == IF j = 1 THEN 1 ELSE c[j - 1] + 1
             IN [k \in 1..(c[j] - lo + 1) |-> lo + k - 1]

\* A word of a line that has a span starts inside one of the line's spans.
WellFormedLine(words, line) ==
    \A k \in 1..Len(line.words) :
        words[line.words[k]].span # None =>
            line.spans # None /\ StartsInside(words[line.words[k]], line.spans)

InitLine ==
    \E ws \in LineWordLists : \E m \in 0..LineMaxLines :
        \E sp \in [1..m -> LineSpanChoices] : \E c \in Cuts(Len(ws), m) :
            LET ls == [j \in 1..m |-> Line(sp[j], Run(c, j))]
            IN /\ \A j \in 1..m : WellFormedLine(ws, ls[j])
               /\ InitWith([styles |-> LineStyles, pages |-> <<Page(1, ws, ls)>>])
SpecLine == InitLine /\ [][Next]_vars

\* One line over offsets 0 and 1 that holds all n words of its page.
WholePageLine(n) == Line(<<Span(0, 2)>>, [k \in 1..n |-> k])

\* The document of the pages, numbered from 1, that hold the word lists wss.
DocOfPages(wss) ==
    [styles |-> LineStyles,
     pages |-> [k \in DOMAIN wss |-> Page(k, wss[k], <<WholePageLine(Len(wss[k]))>>)]]

\* Statistics documents: up to StatMaxPages pages of up to StatMaxWords
\* words under the same style list, each word handwritten with confidence
\* 0.5, printed with confidence 0.3, or without span and without confidence.
StatMaxPages == 2
StatMaxWords == 2

StatWordKinds == {Word("w", Some(Span(0, 1)), Some(50)),
                  Word("w", Some(Span(1, 1)), Some(30)),
                  Word("w", None, None)}
StatWordLists == SeqsUpTo(StatWordKinds, StatMaxWords)

InitStats ==
    \E m \in 0..StatMaxPages : \E wss \in [1..m -> StatWordLists] : InitWith(DocOfPages(wss))
SpecStats == InitStats /\ [][Next]_vars

\* Mean documents: up to MeanMaxPages pages of up to MeanMaxWords
\* handwritten words of confidence 0.1 or 0.5.  No mean depends on the order
\* of the words of a page: each page lists its words by non-decreasing
\* confidence.
MeanMaxPages == 3
MeanMaxWords == 3

MeanWordKinds == {Word("w", Some(Span(0, 1)), Some(c)) : c \in {10, 50}}
MeanWordLists ==
    {ws \in SeqsUpTo(MeanWordKinds, MeanMaxWords) :
        \A k \in 1..Len(ws) : k < Len(ws) => ws[k].confidence[1] <= ws[k + 1].confidence[1]}

InitMean ==
    \E m \in 0..MeanMaxPages : \E wss \in [1..m -> MeanWordLists] : InitWith(DocOfPages(wss))
SpecMean == InitMean /\ [][Next]_vars

\* Transcript documents: a page of up to TrMaxWords words, each printed
\* ("p") or handwritten with a content of 1, 37, 38, 76 or 81 letters (with
\* the indent and the blank after each word, two words of 37 letters fill
\* a line of 80 characters), after up to TrMaxPages - 1 pages that are
\* empty or hold one short word.
TrMaxWords == 3
TrMaxPages == 2

TrLengths == {1, 37, 38, 76, 81}

RECURSIVE Letters(_)
\* A content of n letters.
Letters(n) == IF n = 0 THEN "" ELSE "a" \o Letters(n - 1)

TrWordKinds ==
    {Word(Letters(n), Some(Span(0, 1)), Some(50)) : n \in TrLengths}
        \cup {Word("p", Some(Span(1, 1)), Some(50))}
TrOtherPages == {<<>>, <<Word("p", Some(Span(1, 1)), Some(50))>>,
                 <<Word("b", Some(Span(0, 1)), Some(90))>>}

InitTranscript ==
    \E ws \in SeqsUpTo(TrWordKinds, TrMaxWords) : \E m \in 0..(TrMaxPages - 1) :
        \E others \in [1..m -> TrOtherPages] : InitWith(DocOfPages(others \o <<ws>>))
SpecTranscript == InitTranscript /\ [][Next]_vars

\* Edge documents: no styles, the style list of the line documents, or one
\* handwritten style over offsets 0 and 1; up to EdgeMaxPages pages of up to
\* EdgeMaxWords words, each at offset 0 with confidence 0.5 or without span
\* and without confidence.
EdgeMaxPages == 2
EdgeMaxWords == 2

EdgeStyles == {None, LineStyles, <<Style(Handwritten, <<Span(0, 2)>>)>>}
EdgeWordKinds == {Word("w", Some(Span(0, 1)), Some(50)), Word("w", None, None)}

InitEdge ==
    \E st \in EdgeStyles : \E m \in 0..EdgeMaxPages :
        \E wss \in [1..m -> SeqsUpTo(EdgeWordKinds, EdgeMaxWords)] :
            InitWith([DocOfPages(wss) EXCEPT !.styles = st])
SpecEdge == InitEdge /\ [][Next]_vars

\* Documents with malformed spans: one style of any classification with 1 to
\* MalMaxSpans spans, each well-formed ([0,1)), of negative offset, of length
\* zero or of negative length; one page of one word and one line.
MalMaxSpans == 2

MalSpans == {Span(0, 1), Span(0 - 1, 1), Span(0, 0), Span(1, 0 - 1)}

InitMalformed ==
    \E h \in {None, Handwritten, Printed} : \E n \in 1..MalMaxSpans :
        \E spans \in [1..n -> MalSpans] : \E w \in IdxWords :
            InitWith([styles |-> <<Style(h, spans)>>,
                      pages |-> <<Page(1, <<w>>, <<IdxLine>>)>>])
SpecMalformed == InitMalformed /\ [][Next]_vars

\* The worked example and its neighbours: one style of any classification
\* over [0,5) or [0,10); one page of up to ExMaxWords words, each "Hello" at
\* [0,5) or "World" at [6,11) with confidence 0.9 or 0.95, and one line
\* over all of them.
ExMaxWords == 2

ExWordKinds ==
    {Word("Hello", Some(Span(0, 5)), Some(c)) : c \in {90, 95}}
        \cup {Word("World", Some(Span(6, 5)), Some(c)) : c \in {90, 95}}

ExDocument(h, length, ws) ==
    [styles |-> <<Style(h, <<Span(0, length)>>)>>,
     pages |-> <<Page(1, ws, <<Line(<<Span(0, 11)>>, [k \in 1..Len(ws) |-> k])>>)>>]

HelloWorld ==
    ExDocument(Handwritten, 10,
               <<Word("Hello", Some(Span(0, 5)), Some(95)),
                 Word("World", Some(Span(6, 5)), Some(90))>>)

InitExample ==
    \E h \in {None, Handwritten, Printed} : \E length \in {5, 10} :
        \E ws \in SeqsUpTo(ExWordKinds, ExMaxWords) : InitWith(ExDocument(h, length, ws))
SpecExample == InitExample /\ [][Next]_vars

Init ==
    \/ InitIndex \/ InitLine \/ InitStats \/ InitMean
    \/ InitTranscript \/ InitEdge \/ InitMalformed \/ InitExample
Spec == Init /\ [][Next]_vars

---------------------------------------------------------------------------
(* The scripts' runs: command line, environment, preconditions, requests *)

\* A truth test that only None fails.
FalsyOnlyNoneMutant(x) == x = None

\* not x, for x the result of os.getenv or an optional argument: None or ""
Falsy(x) == x = None \/ x = Some("")

LowerCase == "abcdefghijklmnopqrstuvwxyz"
UpperCase == "ABCDEFGHIJKLMNOPQRSTUVWXYZ"

\* The lower-case letter of every upper-case letter.
LowerOf ==
    [c \in {SubSeq(UpperCase, i, i) : i \in 1..Len(UpperCase)} |->
        LET i == CHOOSE j \in 1..Len(UpperCase) : SubSeq(UpperCase, j, j) = c
        IN SubSeq(LowerCase, i, i)]

LowerChar(c) == IF c \in DOMAIN LowerOf THEN LowerOf[c] ELSE c

RECURSIVE Lower(_)
\* s.lower()
Lower(s) ==
    IF Len(s) = 0 THEN ""
    ELSE LowerChar(SubSeq(s, 1, 1)) \o Lower(SubSeq(s, 2, Len(s)))

Greatest(S) == CHOOSE x \in S : \A y \in S : x >= y

\* s.strip()
Strip(s) ==
    LET kept == {i \in 1..Len(s) : ~IsSpace(SubSeq(s, i, i))}
    IN IF kept = {} THEN "" ELSE SubSeq(s, Least(kept), Greatest(kept))

\* sub in s
Contains(sub, s) ==
    \E i \in 1..(Len(s) - Len(sub) + 1) : SubSeq(s, i, i + Len(sub) - 1) = sub

Env(name) == invocation.env[name]

\* What a run prints, as far as it matters: error and end messages, and the
\* field groups of custom_extract_model.py (doc is the document's index, 0
\* for a message; fields the field names printed under the heading).
Message(text) == [doc |-> 0, heading |-> text, fields |-> <<>>]
Group(d, heading, fields) == [doc |-> d, heading |-> heading, fields |-> fields]

\* print(msg); exit(n)   (also parser.error(msg), with n = 2)
Exit(n, msg) ==
    script' = [script EXCEPT !.pc = "exited", !.status = Some(n),
                             !.printed = Append(@, Message(msg))]

\* at position `at`: if failed: print(msg); exit(n) -- else go on to `next`
Check(at, failed, n, msg, next) ==
    /\ script.pc = at
    /\ IF failed THEN Exit(n, msg) ELSE script' = [script EXCEPT !.pc = next]

\* at position `at`: send the request `call` to the remote service
Request(at, call, next) ==
    /\ script.pc = at
    /\ script' = [script EXCEPT !.pc = next, !.requests = Append(@, call)]

\* the script runs to its end after position `at`
Finish(at) ==
    /\ script.pc = at
    /\ script' = [script EXCEPT !.pc = "done", !.status = Some(0)]

mainVars == <<result, pc, span_map, style_idx, handwritten_offsets,
              printed_offsets, page_idx, word_idx, line_idx, total_words,
              total_hw_words, all_confidences, hw_words, pr_words,
              unknown_words, wih, page_reports, line_reports, summary,
              transcript, calls>>

MissingCredentials ==
    Falsy(Env("AZURE_DOCUMENT_INTELLIGENCE_ENDPOINT"))
        \/ Falsy(Env("AZURE_DOCUMENT_INTELLIGENCE_KEY"))

\* len(sys.argv) < 2
NoArgv == invocation.file = None

\* not os.path.exists(file_path)
FileNotFound == ~invocation.exists

\* ocr_handwriting.py, main up to the request
ocr_handwriting_main ==
    /\ invocation.prog = "ocr_handwriting"
    /\ \/ Check("main", MissingCredentials, 1,
                "ERROR: Missing credentials in .env file.", "argv")
       \/ Check("argv", NoArgv, 1, "Usage", "exists")
       \/ Check("exists", FileNotFound, 1, "ERROR: File not found", "request")
       \/ Request("request", "begin_analyze_document", "result")
       \/ Finish("result")
    /\ UNCHANGED <<mainVars, invocation>>

\* classify_document.py, main up to the request
classify_document_main ==
    /\ invocation.prog = "classify_document"
    /\ \/ Check("main", MissingCredentials, 1,
                "ERROR: Missing credentials in .env file.", "classifier_id")
       \/ Check("classifier_id",
                Falsy(Env("AZURE_DOCUMENT_INTELLIGENCE_CLASSIFIER_ID")), 1,
                "ERROR: Missing AZURE_DOCUMENT_INTELLIGENCE_CLASSIFIER_ID in .env file.",
                "argv")
       \/ Check("argv", NoArgv, 1, "Usage", "exists")
       \/ Check("exists", FileNotFound, 1, "ERROR: File not found", "request")
       \/ Request("request", "begin_classify_document", "result")
       \/ Finish("result")
    /\ UNCHANGED <<mainVars, invocation>>

\* extract_document.py, main up to the request
extract_document_main ==
    /\ invocation.prog = "extract_document"
    /\ \/ Check("main", MissingCredentials, 1,
                "ERROR: Missing credentials in .env file.", "argv")
       \/ Check("argv", NoArgv, 1, "Usage", "exists")
       \/ Check("exists", FileNotFound, 1, "ERROR: File not found", "request")
       \/ Request("request", "begin_analyze_document", "result")
       \/ Finish("result")
    /\ UNCHANGED <<mainVars, invocation>>

\* extract_layout.py, main up to the request
extract_layout_main ==
    /\ invocation.prog = "extract_layout"
    /\ \/ Check("main", MissingCredentials, 1,
                "ERROR: Missing credentials in .env file.", "argv")
       \/ Check("argv", NoArgv, 1, "Usage", "exists")
       \/ Check("exists", FileNotFound, 1, "ERROR: File not found", "request")
       \/ Request("request", "begin_analyze_document", "result")
       \/ Finish("result")
    /\ UNCHANGED <<mainVars, invocation>>

\* analyze_with_phi4.py, main: parser.parse_args() rejects a command line
\* without the positional `file` (argparse: usage message, exit status 2);
\* the file is looked for before the credentials are loaded.
analyze_with_phi4_main ==
    /\ invocation.prog = "analyze_with_phi4"
    /\ \/ Check("main", NoArgv, 2,
                "error: the following arguments are required: file", "exists")
       \/ Check("exists", FileNotFound, 1, "ERROR: File not found", "di_credentials")
       \/ Check("di_credentials", MissingCredentials, 1,
                "ERROR: Missing Document Intelligence credentials in .env",
                "phi4_credentials")
       \/ Check("phi4_credentials",
                Falsy(Env("PHI4_ENDPOINT")) \/ Falsy(Env("PHI4_KEY")), 1,
                "ERROR: Missing Phi-4 credentials in .env", "extract_layout_text")
       \/ Request("extract_layout_text", "begin_analyze_document", "call_phi4")
       \/ Request("call_phi4", "requests.post", "answer")
       \/ Finish("answer")
    /\ UNCHANGED <<mainVars, invocation>>

\* custom_extract_model.py, main: load_credentials, then the mode's function
custom_extract_model_main ==
    /\ invocation.prog = "custom_extract_model"
    /\ \/ Check("main", MissingCredentials, 1,
                "ERROR: Missing credentials in .env file.", "dispatch")
       \/ /\ script.pc = "dispatch"
          /\ IF invocation.mode = "train"
             THEN script' = [script EXCEPT !.pc = "do_train"]
             ELSE IF invocation.mode = "info"
             THEN script' = [script EXCEPT !.pc = "do_info"]
             ELSE IF invocation.mode = "list"
             THEN script' = [script EXCEPT !.pc = "do_list"]
             ELSE IF Falsy(invocation.file)
             THEN Exit(2, "error: A PDF file path is required for analyze mode.")
             ELSE script' = [script EXCEPT !.pc = "do_analyze"]
       \/ Finish("return")
    /\ UNCHANGED <<mainVars, invocation>>

\* A confirmation that takes every answer beginning with y.
ConfirmedByFirstLetterMutant(answer) ==
    LET confirm == Lower(Strip(answer))
    IN Len(confirm) >= 1 /\ SubSeq(confirm, 1, 1) = "y"

\* confirm = input(...).strip().lower(); not (confirm != "y")
Confirmed(answer) ==
    LET confirm == Lower(Strip(answer))
    IN ~(confirm # "y")

do_train ==
    /\ invocation.prog = "custom_extract_model"
    /\ \/ Check("do_train", Falsy(Env("AZURE_BLOB_CONTAINER_SAS_URL")), 1,
                "ERROR: AZURE_BLOB_CONTAINER_SAS_URL not set in .env file.",
                "confirm")
       \/ /\ script.pc = "confirm"
          /\ IF ~Confirmed(invocation.stdin)
             THEN script' = [script EXCEPT !.pc = "return",
                                !.printed = Append(@, Message("Training cancelled."))]
             ELSE script' = [script EXCEPT !.pc = "begin_build_document_model"]
       \/ Request("begin_build_document_model", "begin_build_document_model", "return")
    /\ UNCHANGED <<mainVars, invocation>>

do_info ==
    /\ invocation.prog = "custom_extract_model"
    /\ \/ Check("do_info", Falsy(Env("CUSTOM_MODEL_ID")), 1,
                "ERROR: CUSTOM_MODEL_ID not set in .env file.", "get_model")
       \/ Request("get_model", "get_model", "return")
    /\ UNCHANGED <<mainVars, invocation>>

do_list ==
    /\ invocation.prog = "custom_extract_model"
    /\ Request("do_list", "list_models", "return")
    /\ UNCHANGED <<mainVars, invocation>>

\* categories, in the order of the dict
categories == <<
    [cat |-> "Document Metadata",
     keywords |-> <<"DocumentNumber", "Revision", "EffectiveDate", "Function",
                    "Title", "Date", "Rev">>],
    [cat |-> "Member Applicability",
     keywords |-> <<"MemberName", "Abbreviation", "ChapterApplicability",
                    "Member", "Applicability">>],
    [cat |-> "Supplier Forms",
     keywords |-> <<"FormNumber", "FormName", "SupplierForm">>] >>

\* any(kw.lower() in field_name.lower() for kw in keywords)
AnyKeyword(keywords, field_name) ==
    LET name == Lower(field_name)
    IN \E k \in 1..Len(keywords) : Contains(Lower(keywords[k]), name)

RECURSIVE FirstCategoryFromTakesLastMutant(_, _)
\* A search without the break: the last matching category wins.
FirstCategoryFromTakesLastMutant(field_name, c) ==
    IF c > Len(categories) THEN 0
    ELSE LET later == FirstCategoryFromTakesLastMutant(field_name, c + 1)
         IN IF later # 0 THEN later
            ELSE IF AnyKeyword(categories[c].keywords, field_name) THEN c ELSE 0

RECURSIVE FirstCategoryFrom(_, _)
\* `for cat, keywords in categories.items()` from the c-th category on: the
\* index of the category the field is placed in (break), 0 for placed = False
FirstCategoryFrom(field_name, c) ==
    IF c > Len(categories) THEN 0
    ELSE IF AnyKeyword(categories[c].keywords, field_name) THEN c
    ELSE FirstCategoryFrom(field_name, c + 1)

RECURSIVE GroupFrom(_, _, _, _)
\* `for field_name, field in document.fields.items()` from the i-th field on;
\* categorized[c] and uncategorized hold the field names in insertion order
GroupFrom(fields, i, categorized, uncategorized) ==
    IF i > Len(fields)
    THEN [categorized |-> categorized, uncategorized |-> uncategorized]
    ELSE LET c == FirstCategoryFrom(fields[i], 1)
         IN IF c # 0
            THEN GroupFrom(fields, i + 1,
                           [categorized EXCEPT ![c] = Append(@, fields[i])],
                           uncategorized)
            ELSE GroupFrom(fields, i + 1, categorized,
                           Append(uncategorized, fields[i]))

RECURSIVE PrintCategoriesFrom(_, _, _)
\* `for cat, fields in categorized.items()`: a heading and the fields of
\* every category that is not empty
PrintCategoriesFrom(d, categorized, c) ==
    IF c > Len(categories) THEN <<>>
    ELSE (IF categorized[c] = <<>> THEN <<>>
          ELSE <<Group(d, "[" \o categories[c].cat \o "]", categorized[c])>>)
         \o PrintCategoriesFrom(d, categorized, c + 1)

\* The body of `for doc_idx, document in enumerate(result.documents)` for the
\* document of index d with the field names `fields`: what it prints.
PrintDocument(d, fields) ==
    IF fields = <<>> THEN <<Group(d, "No fields extracted.", <<>>)>>
    ELSE LET g == GroupFrom(fields, 1, [c \in 1..Len(categories) |-> <<>>], <<>>)
         IN PrintCategoriesFrom(d, g.categorized, 1)
            \o (IF g.uncategorized # <<>>
                THEN <<Group(d, "[Other Fields]", g.uncategorized)>> ELSE <<>>)

do_analyze ==
    /\ invocation.prog = "custom_extract_model"
    /\ \/ Check("do_analyze", Falsy(Env("CUSTOM_MODEL_ID")), 1,
                "ERROR: CUSTOM_MODEL_ID not set in .env file.", "exists")
       \/ Check("exists", FileNotFound, 1, "ERROR: File not found", "request")
       \/ Request("request", "begin_analyze_document", "documents")
       \/ /\ script.pc = "documents"
          /\ invocation.documents = <<>>
          /\ script' = [script EXCEPT !.pc = "return",
                 !.printed = Append(@, Message("No documents extracted."))]
       \/ /\ script.pc = "documents"
          /\ invocation.documents # <<>>
          /\ script.doc_idx <= Len(invocation.documents)
          /\ script' = [script EXCEPT !.doc_idx = @ + 1,
                 !.printed = @ \o PrintDocument(script.doc_idx,
                                      invocation.documents[script.doc_idx])]
       \/ /\ script.pc = "documents"
          /\ invocation.documents # <<>>
          /\ script.doc_idx > Len(invocation.documents)
          /\ script' = [script EXCEPT !.pc = "return"]
    /\ UNCHANGED <<mainVars, invocation>>

NextScripts ==
    \/ ocr_handwriting_main
    \/ classify_document_main
    \/ extract_document_main
    \/ extract_layout_main
    \/ analyze_with_phi4_main
    \/ custom_extract_model_main
    \/ do_train
    \/ do_info
    \/ do_list
    \/ do_analyze

\* The state when a script is started with the invocation inv.
InitInvocation(inv) ==
    /\ MainAt([styles |-> None, pages |-> <<>>], "main")
    /\ invocation = inv
    /\ script = [pc |-> "main", requests |-> <<>>, status |-> None,
                 printed |-> <<>>, doc_idx |-> 1]

EnvNames == {"AZURE_DOCUMENT_INTELLIGENCE_ENDPOINT", "AZURE_DOCUMENT_INTELLIGENCE_KEY",
             "AZURE_DOCUMENT_INTELLIGENCE_CLASSIFIER_ID", "CUSTOM_MODEL_ID",
             "AZURE_BLOB_CONTAINER_SAS_URL", "PHI4_ENDPOINT", "PHI4_KEY"}

\* os.getenv gives None, an empty string or a value
EnvValues == {None, Some(""), Some("set")}

DIVars == {"AZURE_DOCUMENT_INTELLIGENCE_ENDPOINT", "AZURE_DOCUMENT_INTELLIGENCE_KEY"}

\* The environment variables a mode of a script reads before its requests.
Reads(prog, mode) ==
    DIVars \cup
    (IF prog = "classify_document" THEN {"AZURE_DOCUMENT_INTELLIGENCE_CLASSIFIER_ID"}
     ELSE IF prog = "analyze_with_phi4" THEN {"PHI4_ENDPOINT", "PHI4_KEY"}
     ELSE IF prog = "custom_extract_model" /\ mode = "train"
          THEN {"AZURE_BLOB_CONTAINER_SAS_URL"}
     ELSE IF prog = "custom_extract_model" /\ mode \in {"analyze", "info"}
          THEN {"CUSTOM_MODEL_ID"}
     ELSE {})

Programs == {"ocr_handwriting", "classify_document", "extract_document",
             "extract_layout", "analyze_with_phi4", "custom_extract_model"}
Modes(prog) ==
    IF prog = "custom_extract_model" THEN {"analyze", "train", "info", "list"}
    ELSE {"analyze"}

Invocation(prog, mode, env, file, exists, stdin, documents) ==
    [prog |-> prog, mode |-> mode, env |-> env, file |-> file,
     exists |-> exists, stdin |-> stdin, documents |-> documents]

\* Command lines: no file argument, an empty one, the path of a file that
\* exists or does not (the empty path never exists).
Files == {<<None, FALSE>>, <<Some(""), FALSE>>,
          <<Some("form.pdf"), FALSE>>, <<Some("form.pdf"), TRUE>>}

\* Every script and mode under every environment it reads and every command
\* line; the answer at the prompt is y, the service returns no document.
InitPreconditions ==
    \E prog \in Programs : \E mode \in Modes(prog) :
        \E e \in [Reads(prog, mode) -> EnvValues] : \E f \in Files :
            InitInvocation(Invocation(prog, mode,
                [n \in EnvNames |-> IF n \in Reads(prog, mode) THEN e[n] ELSE None],
                f[1], f[2], "y", <<>>))

\* What the user may type at the prompt.
Answers == {"y", "Y", " y ", "  Y", "", " ", "n", "N", "yes", "Yes", "no", "y y", "yy"}

\* Train mode under every environment it reads and every answer.
InitTrain ==
    \E e \in [Reads("custom_extract_model", "train") -> EnvValues] :
        \E answer \in Answers :
            InitInvocation(Invocation("custom_extract_model", "train",
                [n \in EnvNames |->
                    IF n \in Reads("custom_extract_model", "train") THEN e[n] ELSE None],
                None, FALSE, answer, <<>>))

\* Field names: one keyword of each category, names that match keywords of
\* two categories, names in another case, names that match no keyword.
FieldNames == {"DocumentNumber", "SupplierFormDate", "memberapplicability",
               "FORMNAME", "MemberFormNumber", "Notes"}

GroupMaxFields == 3

\* The documents that come before the one whose fields vary.
GroupOtherDocuments == {<<>>, << <<>> >>, << <<"Notes", "Title">> >>}

\* Analyze mode with every precondition met; the service returns documents
\* whose last has up to GroupMaxFields fields of distinct names (the fields
\* are the keys of a dict).
InitGroup ==
    \E fields \in SeqsUpTo(FieldNames, GroupMaxFields) :
        \E others \in GroupOtherDocuments :
            /\ \A i, j \in 1..Len(fields) : fields[i] = fields[j] => i = j
            /\ InitInvocation(Invocation("custom_extract_model", "analyze",
                   [n \in EnvNames |->
                       IF n \in Reads("custom_extract_model", "analyze")
                       THEN Some("set") ELSE None],
                   Some("form.pdf"), TRUE, "", others \o <<fields>>))

InitScripts == InitPreconditions \/ InitTrain \/ InitGroup
SpecScripts == InitScripts /\ [][NextScripts]_vars

---------------------------------------------------------------------------
(* What the claims speak of, stated on the document itself *)

\* The positions <<i, k>> of the spans of the styles classified h.
StyleSpanPositions(h) ==
    UNION {{<<i, k>> : k \in 1..Len(result.styles[i].spans)} :
              i \in {j \in 1..Len(result.styles) : result.styles[j].is_handwritten = h}}

\* The union of the offsets of all spans of the styles classified h.
UnionOfStyleSpans(h) ==
    UNION {SpanRange(result.styles[ik[1]].spans[ik[2]]) : ik \in StyleSpanPositions(h)}

Indexed == pc \notin {"classify_spans", "style_loop"}

\* The word of the last classifier call of the word loop.
WihWord == result.pages[wih[1].page].words[wih[1].word]
WihRange == SpanRange(WihWord.span[1])
WihHw == Cardinality(WihRange \cap span_map.handwritten)
WihPr == Cardinality(WihRange \cap span_map.printed)

(* C1: for a word with a span, with hw and pr the numbers of offsets of its
   range in the handwritten and in the printed coverage, the classifier
   returns Handwritten when hw > pr, Printed when pr > hw and Unknown when
   hw = pr (ties with equal non-zero counts and the case of both zero). *)
C1_VerdictByCounts ==
    (wih # None /\ WihWord.span # None) =>
        /\ (WihHw > WihPr => wih[1].ret = Handwritten)
        /\ (WihPr > WihHw => wih[1].ret = Printed)
        /\ (WihHw = WihPr => wih[1].ret = Unknown)

C1_Witness_NonZeroTie ==
    /\ wih # None
    /\ WihWord.span # None
    /\ WihHw = WihPr
    /\ WihHw > 0
    /\ wih[1].ret = Unknown
    /\ unknown_words = <<1>>

(* C2: after indexing, the handwritten coverage is exactly the union of the
   offsets of all spans of Handwritten styles and the printed coverage that
   of all spans of Printed styles; styles whose classification is None add
   to neither, and an offset covered by both kinds is in both coverages. *)
C2_CoverageIsUnionByKind ==
    Indexed =>
        /\ span_map.handwritten = UnionOfStyleSpans(Handwritten)
        /\ span_map.printed = UnionOfStyleSpans(Printed)

C2_Witness_UnknownStyleIgnored ==
    /\ Indexed
    /\ span_map.handwritten # {}
    /\ \E o \in UnionOfStyleSpans(None) :
           o \notin span_map.handwritten /\ o \notin span_map.printed

(* C3: the number of covered offsets counted inside a word's range equals
   the number of distinct offsets of the range that lie in the union of the
   input spans; an offset covered by several input spans counts once. *)
C3_CountIsDistinctOffsets ==
    (wih # None /\ WihWord.span # None) =>
        /\ wih[1].hw_count = Cardinality(WihRange \cap UnionOfStyleSpans(Handwritten))
        /\ wih[1].pr_count = Cardinality(WihRange \cap UnionOfStyleSpans(Printed))

C3_Witness_OffsetCoveredTwice ==
    /\ wih # None
    /\ WihWord.span # None
    /\ wih[1].hw_count = 1
    /\ \E a \in StyleSpanPositions(Handwritten), b \in StyleSpanPositions(Handwritten) :
           /\ a # b
           /\ WihRange \cap SpanRange(result.styles[a[1]].spans[a[2]])
                       \cap SpanRange(result.styles[b[1]].spans[b[2]]) # {}

---------------------------------------------------------------------------
(* Lines *)

\* The verdict of a word, from the input spans of the styles.
VerdictIn(w, handwritten, printed) ==
    IF w.span = None THEN Unknown
    ELSE LET hw == Cardinality(SpanRange(w.span[1]) \cap handwritten)
             pr == Cardinality(SpanRange(w.span[1]) \cap printed)
         IN IF hw > pr THEN Handwritten ELSE IF pr > hw THEN Printed ELSE Unknown
VerdictFromStyles(w) ==
    VerdictIn(w, UnionOfStyleSpans(Handwritten), UnionOfStyleSpans(Printed))

Range(f) == {f[k] : k \in DOMAIN f}
Max(a, b) == IF a >= b THEN a ELSE b

RECURSIVE ConfidenceTotal(_, _)
\* The total of the confidences (absent: 0) of the words at the indices in S.
ConfidenceTotal(words, S) ==
    IF S = {} THEN 0
    ELSE LET i == CHOOSE x \in S : TRUE
         IN OrZero(words[i].confidence) + ConfidenceTotal(words, S \ {i})

\* For the line report r: the page's words, the line, and the words counted
\* for the line (those its fraction was computed over).
ReportWords(r) == result.pages[r.page].words
ReportLine(r) == result.pages[r.page].lines[r.line]
Counted(r) == Range(r.line_words)
CountedHandwritten(r) ==
    {i \in Counted(r) : VerdictFromStyles(ReportWords(r)[i]) = Handwritten}
LineReports == Range(line_reports)

(* C4: a line is tagged Handwritten if and only if the number of its
   Handwritten-verdict words divided by max(n, 1) is strictly greater than
   0.5, n being the number of words counted for the line, and Printed
   otherwise: 2 of 4 is Printed, 3 of 5 is Handwritten, no words is Printed. *)
C4_TagIsStrictMajority ==
    \A r \in LineReports :
        LET n == Cardinality(Counted(r))
            h == Cardinality(CountedHandwritten(r))
        IN /\ r.tag \in {"HW", "PR"}
           /\ r.tag = "HW" <=> 2 * h > Max(n, 1)
           /\ (n = 4 /\ h = 2) => r.tag = "PR"
           /\ (n = 5 /\ h = 3) => r.tag = "HW"
           /\ n = 0 => r.tag = "PR"

C4_Witness_TwoOfFourIsPrinted ==
    \E r \in LineReports :
        /\ Cardinality(Counted(r)) = 4
        /\ Cardinality(CountedHandwritten(r)) = 2
        /\ r.tag = "PR"

(* C5: a word of the line that has no span still counts toward the
   denominator n of the line's handwritten fraction. *)
C5_SpanlessWordsCounted ==
    \A r \in LineReports :
        \A i \in Range(ReportLine(r).words) :
            ReportWords(r)[i].span = None => i \in Counted(r)

(* C6: the words aggregated for a line are exactly the words the line
   contains, none attributed to a line it does not belong to and none left
   out of its own line. *)
C6_LineWordsAreTheLinesWords ==
    \A r \in LineReports : r.line_words = ReportLine(r).words

(* C7: the confidence of a line is the arithmetic mean of the confidences
   of exactly the words used in its handwritten-fraction computation, a word
   without a confidence contributing 0 and still counted in the divisor; a
   line with no such word has confidence 0. *)
C7_LineConfIsMeanOfCounted ==
    \A r \in LineReports :
        LET n == Cardinality(Counted(r))
        IN /\ r.total_in_line = Max(n, 1)
           /\ n > 0 => /\ r.line_conf.den > 0
                       /\ r.line_conf.num * n =
                              ConfidenceTotal(ReportWords(r), Counted(r)) * r.line_conf.den
           /\ n = 0 => r.line_conf.num = 0 /\ r.line_conf.den > 0

C7_Witness_MissingConfidenceCounted ==
    \E r \in LineReports :
        /\ Cardinality(Counted(r)) = 2
        /\ \E i \in Counted(r) : ReportWords(r)[i].confidence = None
        /\ r.line_conf.num > 0

---------------------------------------------------------------------------
(* Statistics *)

\* The indices of the words of page p whose verdict is v.
WordsWithVerdict(p, v) ==
    LET handwritten == UnionOfStyleSpans(Handwritten)
        printed == UnionOfStyleSpans(Printed)
    IN {i \in 1..Len(result.pages[p].words) :
            VerdictIn(result.pages[p].words[i], handwritten, printed) = v}

\* The mean word confidence of page p (0 for a page without words).
PageMeanFromWords(p) ==
    LET ws == result.pages[p].words
    IN Mean(ConfidenceTotal(ws, 1..Len(ws)), Len(ws))

(* C8: for every page, the reported word count is the number of words of the
   page; the handwritten, printed and unknown counts are the numbers of its
   words with verdict Handwritten, Printed and Unknown (so they sum to the
   word count); the page's mean confidence is the sum of the word
   confidences divided by the word count, or 0 for a page without words. *)
C8_PageStatistics ==
    \A p \in 1..Len(page_reports) :
        LET r == page_reports[p]
            n == Len(result.pages[p].words)
        IN /\ r.page_number = result.pages[p].page_number
           /\ r.words = n
           /\ r.handwritten = Cardinality(WordsWithVerdict(p, Handwritten))
           /\ r.printed = Cardinality(WordsWithVerdict(p, Printed))
           /\ r.unclassified = Cardinality(WordsWithVerdict(p, Unknown))
           /\ r.handwritten + r.printed + r.unclassified = r.words
           /\ r.page_conf.den > 0
           /\ RatEq(r.page_conf, PageMeanFromWords(p))
           /\ n = 0 => r.page_conf.num = 0

C8_Witness_AllThreeVerdictsReported ==
    /\ Len(page_reports) = 2
    /\ page_reports[1].handwritten = 1
    /\ page_reports[1].unclassified = 1
    /\ page_reports[1].page_conf.num > 0
    /\ page_reports[2].printed = 1
    /\ page_reports[2].words = 1

(* C9: the document-level printed-word count equals the sum over all pages
   of the per-page printed-word counts, and the document-level handwritten
   count the sum of the per-page handwritten counts; Unknown words are not
   counted as printed at document level. *)
C9_DocumentCountsAreSumsOfPageCounts ==
    summary # None =>
        /\ summary[1].printed_words =
               SumSeq([p \in 1..Len(page_reports) |-> page_reports[p].printed])
        /\ summary[1].handwritten_words =
               SumSeq([p \in 1..Len(page_reports) |-> page_reports[p].handwritten])

\* The mean over the flattened word list, and the mean of the pages' means.
AllPages == 1..Len(result.pages)
WordCount(p) == Len(result.pages[p].words)
FlattenedMean ==
    Mean(SumSeq([p \in AllPages |->
                    ConfidenceTotal(result.pages[p].words, 1..WordCount(p))]),
         SumSeq([p \in AllPages |-> WordCount(p)]))
MeanOfPageMeans == MeanOfMeans([p \in AllPages |-> PageMeanFromWords(p)])

\* At least two pages, no two with the same word count or the same mean.
PagesAllUnequal ==
    /\ Len(result.pages) >= 2
    /\ \A p \in AllPages, q \in AllPages :
           p # q => /\ WordCount(p) # WordCount(q)
                    /\ ~RatEq(PageMeanFromWords(p), PageMeanFromWords(q))

(* C10 as claimed: the document-level mean word confidence is the sum of the
   confidences of all words of all pages divided by the total number of
   words (0 without words), and it differs from the mean of the page means
   whenever pages have unequal word counts and unequal page means. *)
C10_FlattenedMeanDiffersWhenUnequal ==
    summary # None =>
        /\ summary[1].avg_conf.den > 0
        /\ RatEq(summary[1].avg_conf, FlattenedMean)
        /\ PagesAllUnequal => ~RatEq(summary[1].avg_conf, MeanOfPageMeans)

(* C10 amended: the document-level mean word confidence is the sum of the
   confidences of all words of all pages divided by the total number of
   words (0 without words); in a document of exactly two pages it differs
   from the mean of the page means exactly when the two pages have unequal
   word counts and unequal page means. *)
C10_FlattenedMean ==
    summary # None =>
        /\ summary[1].avg_conf.den > 0
        /\ RatEq(summary[1].avg_conf, FlattenedMean)
        /\ Len(all_confidences) = 0 => summary[1].avg_conf.num = 0
        /\ Len(result.pages) = 2 =>
               (~RatEq(summary[1].avg_conf, MeanOfPageMeans)
                    <=> /\ WordCount(1) # WordCount(2)
                        /\ ~RatEq(PageMeanFromWords(1), PageMeanFromWords(2)))

C10_Witness_TwoUnequalPages ==
    /\ summary # None
    /\ Len(result.pages) = 2
    /\ WordCount(1) = 1
    /\ WordCount(2) = 3
    /\ ~RatEq(PageMeanFromWords(1), PageMeanFromWords(2))
    /\ ~RatEq(summary[1].avg_conf, MeanOfPageMeans)

---------------------------------------------------------------------------
(* The handwritten-text section *)

\* The section has finished with page p.
TranscriptDone(p) ==
    \/ pc \in {"summary", "done"}
    \/ pc = "transcript_loop" /\ p < page_idx

\* What the section printed for page p, in order, and the wrapped lines of it.
EmittedFor(p) == SelectSeq(transcript, LAMBDA e : e.page = p)
TranscriptLines(p) ==
    LET ls == SelectSeq(transcript, LAMBDA e : e.page = p /\ e.kind = "line")
    IN [k \in 1..Len(ls) |-> ls[k].text]

RECURSIVE Concat(_)
Concat(ss) == IF ss = <<>> THEN "" ELSE Head(ss) \o Concat(Tail(ss))

RECURSIVE ContentsFrom(_, _)
ContentsFrom(p, i) ==
    IF i > WordCount(p) THEN <<>>
    ELSE (IF i \in WordsWithVerdict(p, Handwritten)
          THEN <<result.pages[p].words[i].content>> ELSE <<>>)
         \o ContentsFrom(p, i + 1)

\* The contents of the Handwritten-verdict words of page p, in order.
HandwrittenContents(p) == ContentsFrom(p, 1)

(* C11: for any page, concatenating all transcript lines emitted for the
   page and splitting the result on whitespace reproduces exactly the ordered
   sequence of the contents of the page's Handwritten-verdict words: no word
   is split, dropped, duplicated or reordered. *)
C11_TranscriptWordIntegrity ==
    \A p \in AllPages :
        TranscriptDone(p) => Split(Concat(TranscriptLines(p))) = HandwrittenContents(p)

C11_Witness_ThreeWordsOnTwoLines ==
    \E p \in AllPages :
        /\ TranscriptDone(p)
        /\ Len(HandwrittenContents(p)) = 3
        /\ Len(TranscriptLines(p)) = 2
        /\ HandwrittenContents(p)[1] # HandwrittenContents(p)[2]
        /\ WordCount(p) = 3

\* The texts of all wrapped lines the section printed.
AllTranscriptLines == {e.text : e \in {x \in Range(transcript) : x.kind = "line"}}

(* C12: no emitted transcript line is longer than maxLineWidth characters
   (80), counting every character of the emitted line, except a line that
   consists of a single word whose own length is greater than maxLineWidth. *)
C12_NoLineOverWidth ==
    \A t \in AllTranscriptLines :
        \/ Len(t) <= MaxLineWidth
        \/ Len(Split(t)) = 1 /\ Len(Split(t)[1]) > MaxLineWidth

RECURSIVE GreedyRuns(_, _, _)
\* The greedy wrap of the words ws from the k-th on, run being the run of
\* words collected for the current line: each line takes the longest run of
\* consecutive words whose single-space join is at most MaxLineWidth
\* characters, and at least one word.
GreedyRuns(ws, k, run) ==
    IF k > Len(ws) THEN (IF run = <<>> THEN <<>> ELSE <<run>>)
    ELSE IF run = <<>> \/ Len(Join(Append(run, ws[k]))) <= MaxLineWidth
         THEN GreedyRuns(ws, k + 1, Append(run, ws[k]))
         ELSE <<run>> \o GreedyRuns(ws, k + 1, <<ws[k]>>)

(* C13: the transcript wrap is greedy over the single-space join of the
   handwritten words: each emitted line is the maximal run of consecutive
   handwritten words whose single-space join is at most maxLineWidth
   characters, a word longer than maxLineWidth stands alone on its own line
   unsplit and untruncated, and no emitted line is empty. *)
C13_GreedyWrap ==
    \A p \in AllPages :
        TranscriptDone(p) =>
            LET ls == TranscriptLines(p)
            IN /\ \A k \in 1..Len(ls) : Split(ls[k]) # <<>>
               /\ [k \in 1..Len(ls) |-> Split(ls[k])]
                      = GreedyRuns(HandwrittenContents(p), 1, <<>>)

---------------------------------------------------------------------------
(* Missing spans, empty input *)

\* The indices of the words of page p that have no span.
WordsWithoutSpan(p) == {i \in 1..WordCount(p) : result.pages[p].words[i].span = None}

\* The word loop of the current page has classified its i-th word.
ClassifiedOnCurrentPage(i) ==
    \/ pc = "line_loop"
    \/ pc = "word_loop" /\ i < word_idx

\* The numbers of lines and of words of the document.
LinesOfDocument == SumSeq([p \in AllPages |-> Len(result.pages[p].lines)])
WordsOfDocument == SumSeq([p \in AllPages |-> WordCount(p)])

(* C14: a word that has no span is classified Unknown whatever the style
   coverage is, and classifying it never fails: it is counted among the
   page's unknown words (and not among the handwritten or printed ones), and
   processing of the remaining words, lines and pages continues, so that at
   the end every page and every line has been reported and every word
   counted. *)
C14_WordWithoutSpanIsUnknown ==
    /\ (wih # None /\ WihWord.span = None) => wih[1].ret = Unknown
    /\ pc \in {"word_loop", "line_loop"} =>
           \A i \in WordsWithoutSpan(page_idx) :
               ClassifiedOnCurrentPage(i) =>
                   /\ i \in Range(unknown_words)
                   /\ i \notin Range(hw_words) \cup Range(pr_words)
    /\ \A p \in 1..Len(page_reports) :
           page_reports[p].unclassified >= Cardinality(WordsWithoutSpan(p))
    /\ pc = "done" =>
           /\ Len(page_reports) = Len(result.pages)
           /\ Len(line_reports) = LinesOfDocument
           /\ summary[1].total_words = WordsOfDocument
           /\ Len(all_confidences) = WordsOfDocument

C14_Witness_RunGoesOnAfterWordWithoutSpan ==
    /\ pc = "done"
    /\ result.styles # None
    /\ Len(result.pages) = 2
    /\ WordCount(1) = 2
    /\ WordsWithoutSpan(1) = {1}
    /\ page_reports[1].unclassified = 1
    /\ page_reports[1].handwritten = 1
    /\ page_reports[2].words = 1
    /\ Len(line_reports) = 2

\* A span of negative offset, or of length zero or negative.
Malformed(span) == span.offset < 0 \/ span.length <= 0

\* The spans of the styles that coverage is built from.
CoverageSpans ==
    {result.styles[ik[1]].spans[ik[2]] :
        ik \in StyleSpanPositions(Handwritten) \cup StyleSpanPositions(Printed)}

(* C15: building offset coverage from a style annotation that contains a
   malformed span (negative offset, or length zero or negative) is rejected
   with a failure that reports the offending span: the index is never
   completed from such an annotation, the span being neither skipped, nor
   clamped, nor treated as covering no offsets. *)
C15_MalformedSpanRejected ==
    Indexed => \A span \in CoverageSpans : ~Malformed(span)

\* Every mean the run has printed so far.
PrintedMeans ==
    {page_reports[p].page_conf : p \in 1..Len(page_reports)}
        \cup {r.line_conf : r \in LineReports}
        \cup {e.avg_conf : e \in Range(transcript)}
        \cup (IF summary = None THEN {} ELSE {summary[1].avg_conf})

(* C16: empty input never causes a failure: with zero style annotations
   (empty or absent list) both coverages are empty and every word is Unknown;
   with zero pages or zero words every count is 0, every mean confidence is
   0 (none is a division by zero), and the transcript is empty; the run
   reaches its summary all the same. *)
C16_EmptyInput ==
    /\ \A m \in PrintedMeans : m.den > 0
    /\ (result.styles = None /\ Indexed) =>
           /\ span_map = [handwritten |-> {}, printed |-> {}]
           /\ wih # None => wih[1].ret = Unknown
           /\ \A p \in 1..Len(page_reports) :
                  /\ page_reports[p].handwritten = 0
                  /\ page_reports[p].printed = 0
                  /\ page_reports[p].unclassified = WordCount(p)
           /\ transcript = <<>>
    /\ \A p \in 1..Len(page_reports) :
           WordCount(p) = 0 =>
               /\ page_reports[p].words = 0
               /\ page_reports[p].handwritten = 0
               /\ page_reports[p].printed = 0
               /\ page_reports[p].unclassified = 0
               /\ page_reports[p].page_conf.num = 0
    /\ \A r \in LineReports :
           WordCount(r.page) = 0 => r.hw_count = 0 /\ r.line_conf.num = 0 /\ r.tag = "PR"
    /\ WordsOfDocument = 0 =>
           /\ transcript = <<>>
           /\ pc = "done" =>
                  /\ summary[1].pages = Len(result.pages)
                  /\ summary[1].total_words = 0
                  /\ summary[1].handwritten_words = 0
                  /\ summary[1].printed_words = 0
                  /\ summary[1].avg_conf.num = 0
    /\ pc = "done" => summary # None /\ Len(page_reports) = Len(result.pages)

C16_Witness_NoStylesNoWords ==
    /\ pc = "done"
    /\ result.styles = None
    /\ Len(result.pages) = 2
    /\ WordsOfDocument = 0
    /\ summary[1].avg_conf.num = 0
    /\ Len(line_reports) = 2

---------------------------------------------------------------------------
(* The meaning of Unknown *)

(* C17 as claimed: a word's verdict is Unknown only when there is no
   evidence either way, that is when its span overlaps neither the
   handwritten coverage nor the printed coverage (or it has no span); a word
   whose span overlaps both coverages is never given the verdict Unknown. *)
C17_UnknownOnlyWithoutEvidence ==
    wih # None =>
        /\ wih[1].ret = Unknown =>
               \/ WihWord.span = None
               \/ WihHw = 0 /\ WihPr = 0
        /\ (WihWord.span # None /\ WihHw > 0 /\ WihPr > 0) => wih[1].ret # Unknown

(* C17 amended: a word's verdict is Unknown exactly when it has no span or
   its span overlaps the handwritten and the printed coverage in equal
   numbers of offsets: in none, or in as many of the one as of the other; a
   word whose span overlaps both coverages in unequal numbers is never given
   the verdict Unknown. *)
C17_UnknownExactlyOnEqualEvidence ==
    wih # None =>
        /\ wih[1].ret = Unknown <=> (WihWord.span = None \/ WihHw = WihPr)
        /\ (WihWord.span # None /\ WihHw > 0 /\ WihPr > 0 /\ WihHw # WihPr)
               => wih[1].ret # Unknown

C17_Witness_UnequalOverlapOfBoth ==
    /\ wih # None
    /\ WihWord.span # None
    /\ WihHw > WihPr
    /\ WihPr > 0
    /\ wih[1].ret = Handwritten
    /\ hw_words = <<1>>

---------------------------------------------------------------------------
(* Pages without handwriting; the worked example *)

(* C18: a page with zero Handwritten-verdict words produces an empty
   transcript: no transcript line, not even a blank or header-only line, is
   emitted for that page. *)
C18_NoHandwritingNoTranscript ==
    \A p \in AllPages :
        WordsWithVerdict(p, Handwritten) = {} => EmittedFor(p) = <<>>

C18_Witness_PageSkippedInSection ==
    /\ pc = "done"
    /\ Len(result.pages) = 2
    /\ WordCount(1) = 1
    /\ WordsWithVerdict(1, Handwritten) = {}
    /\ EmittedFor(1) = <<>>
    /\ EmittedFor(2) # <<>>

\* What the example's claim says of the run, but for the text of the line.
ExampleClassifiedAndCounted ==
    /\ wih # None => wih[1].ret = Handwritten
    /\ Len(page_reports) >= 1 =>
           /\ page_reports[1].words = 2
           /\ page_reports[1].handwritten = 2
           /\ page_reports[1].printed = 0
           /\ page_reports[1].unclassified = 0
           /\ RatEq(page_reports[1].page_conf, [num |-> 925, den |-> 10])

(* C19 as claimed: for the document with one page, one Handwritten style
   annotation covering offsets [0,10) and the two words "Hello" (span offset
   0, length 5, confidence 0.95) and "World" (span offset 6, length 5,
   confidence 0.9): both words classify Handwritten, the page statistics are
   2 handwritten and 0 printed words with mean confidence 0.925, and the
   transcript with maxLineWidth 80 is exactly the one line "Hello World". *)
C19_HelloWorld ==
    result = HelloWorld =>
        /\ ExampleClassifiedAndCounted
        /\ pc = "done" => TranscriptLines(1) = <<"Hello World">>

(* C19 amended: for the same document both words classify Handwritten, the
   page statistics are 2 handwritten and 0 printed words with mean
   confidence 0.925, and the transcript is exactly one line, which holds the
   two words Hello and World in this order and is emitted with the four
   blanks of the indent before them and one blank after each word:
   "    Hello World ". *)
C19_HelloWorldIndented ==
    result = HelloWorld =>
        /\ ExampleClassifiedAndCounted
        /\ pc = "done" =>
               /\ TranscriptLines(1) = <<"    Hello World ">>
               /\ Split(TranscriptLines(1)[1]) = <<"Hello", "World">>
               /\ summary[1].handwritten_words = 2

C19_Witness_HelloWorldDone ==
    /\ result = HelloWorld
    /\ pc = "done"
    /\ Len(transcript) = 4
    /\ page_reports[1].handwritten = 2

---------------------------------------------------------------------------
(* The input *)

(* C20: classifying a document never changes its input: through style
   indexing, word classification, line aggregation, statistics and
   transcript building, every Word, Line, Page and StyleAnnotation value
   (content, spans, confidence, order) stays equal to its value before the
   run: no step of the run changes the document. *)
C20_InputNeverChanges == [][result' = result]_vars

C20_Witness_AllStagesRan ==
    /\ pc = "done"
    /\ Len(result.styles) = 2
    /\ Len(result.pages) = 2
    /\ Len(line_reports) = 2
    /\ Len(transcript) > 1
    /\ \E i \in 1..WordCount(1) : result.pages[1].words[i].confidence = None

---------------------------------------------------------------------------
(* One classification per word *)

\* How many times word_is_handwritten has been called for word w of page p.
CallsOf(p, w) ==
    Cardinality({k \in 1..Len(calls.word_is_handwritten) :
                     calls.word_is_handwritten[k] = <<p, w>>})

(* C21: in one run over a document the style index is built exactly once and
   before any word is classified, and the word classifier is then invoked
   exactly once for each word: line aggregation, statistics and the
   transcript consume the stored verdicts, so no word is ever classified a
   second time and at the end of the run every word has been classified
   once. *)
C21_ClassifierOncePerWord ==
    /\ calls.classify_spans <= 1
    /\ calls.word_is_handwritten # <<>> =>
           calls.classify_spans = 1 /\ Indexed
    /\ \A p \in AllPages : \A w \in 1..WordCount(p) : CallsOf(p, w) <= 1
    /\ pc = "done" =>
           \A p \in AllPages : \A w \in 1..WordCount(p) : CallsOf(p, w) = 1

---------------------------------------------------------------------------
(* The handwritten-text section against the statistics *)

\* The section's heading has been printed.
SectionEmitted == \E k \in 1..Len(transcript) : transcript[k] = SectionHeading

\* The number of words over all the lines the section printed.
WordsOnTranscriptLines ==
    SumSeq([k \in 1..Len(transcript) |->
                IF transcript[k].kind = "line" THEN Len(Split(transcript[k].text)) ELSE 0])

(* C22: the handwritten-text section is consistent with the statistics: it
   is emitted if and only if the document-level handwritten word count is
   greater than 0, a page appears in it if and only if the page's reported
   handwritten count is greater than 0, and the number of words over all the
   emitted transcript lines equals the handwritten word count of the
   summary. *)
C22_TranscriptMatchesStatistics ==
    /\ transcript # <<>> => SectionEmitted /\ total_hw_words > 0
    /\ \A p \in AllPages :
           TranscriptDone(p) =>
               (EmittedFor(p) # <<>> <=> page_reports[p].handwritten > 0)
    /\ pc = "done" =>
           /\ SectionEmitted <=> summary[1].handwritten_words > 0
           /\ WordsOnTranscriptLines = summary[1].handwritten_words

C22_Witness_SectionOfTwoWordsOnOnePage ==
    /\ pc = "done"
    /\ Len(result.pages) = 2
    /\ WordCount(1) = 1
    /\ page_reports[1].handwritten = 0
    /\ EmittedFor(1) = <<>>
    /\ page_reports[2].handwritten = 2
    /\ page_reports[2].printed = 1
    /\ Len(TranscriptLines(2)) = 2
    /\ summary[1].handwritten_words = 2
    /\ WordsOnTranscriptLines = 2

---------------------------------------------------------------------------
(* The scripts' requests against their preconditions *)

Sent(call) == \E k \in 1..Len(script.requests) : script.requests[k] = call

\* The last thing the run printed, among what Message and Group record.
LastPrinted == script.printed[Len(script.printed)]

TrainRun ==
    /\ invocation # None
    /\ invocation.prog = "custom_extract_model"
    /\ invocation.mode = "train"

\* The prompt of do_train has been answered.
PromptAnswered == script.pc \in {"begin_build_document_model", "return", "done"}

(* C23: in train mode a model build is started on the remote service only
   after the blob container SAS URL is configured and the user answered the
   confirmation prompt with exactly "y" (after trimming and lower-casing);
   on any other answer, including an empty one, the run ends with
   "Training cancelled" and no build request is ever sent. *)
C23_BuildOnlyAfterConfirmation ==
    TrainRun =>
        /\ Sent("begin_build_document_model") =>
               /\ ~Falsy(Env("AZURE_BLOB_CONTAINER_SAS_URL"))
               /\ Lower(Strip(invocation.stdin)) = "y"
        /\ (PromptAnswered /\ Lower(Strip(invocation.stdin)) # "y") =>
               /\ script.requests = <<>>
               /\ script.pc \in {"return", "done"}
               /\ LastPrinted = Message("Training cancelled.")
        /\ script.pc = "exited" => script.requests = <<>>

C23_Witness_CancelledOnEmptyAnswer ==
    /\ TrainRun
    /\ invocation.stdin = ""
    /\ ~Falsy(Env("AZURE_BLOB_CONTAINER_SAS_URL"))
    /\ script.pc = "done"
    /\ script.status = Some(0)
    /\ LastPrinted = Message("Training cancelled.")
    /\ script.requests = <<>>

\* A run of a script in its analysis (or classification) mode.
AnalysisRun == invocation # None /\ invocation.mode = "analyze"

\* The scripts that read their command line with argparse.
ArgparseScripts == {"analyze_with_phi4", "custom_extract_model"}

\* The environment variable is present and not empty.
Present(name) == Env(name) # None /\ Env(name) # Some("")

\* The preconditions of a run, by name: which of them this run does not meet.
Unmet(check) ==
    IF check = "credentials"
    THEN ~(Present("AZURE_DOCUMENT_INTELLIGENCE_ENDPOINT")
               /\ Present("AZURE_DOCUMENT_INTELLIGENCE_KEY"))
    ELSE IF check = "classifier_id"
    THEN invocation.prog = "classify_document"
             /\ ~Present("AZURE_DOCUMENT_INTELLIGENCE_CLASSIFIER_ID")
    ELSE IF check = "model_id"
    THEN invocation.prog = "custom_extract_model" /\ ~Present("CUSTOM_MODEL_ID")
    ELSE IF check = "phi4_credentials"
    THEN invocation.prog = "analyze_with_phi4"
             /\ ~(Present("PHI4_ENDPOINT") /\ Present("PHI4_KEY"))
    ELSE IF check = "file"
    THEN \/ invocation.file = None
         \/ invocation.prog = "custom_extract_model" /\ invocation.file = Some("")
    ELSE ~invocation.exists

\* What a script prints last when the precondition is not met.
MessageOf(check) ==
    IF check = "credentials"
    THEN (IF invocation.prog = "analyze_with_phi4"
          THEN "ERROR: Missing Document Intelligence credentials in .env"
          ELSE "ERROR: Missing credentials in .env file.")
    ELSE IF check = "classifier_id"
    THEN "ERROR: Missing AZURE_DOCUMENT_INTELLIGENCE_CLASSIFIER_ID in .env file."
    ELSE IF check = "model_id" THEN "ERROR: CUSTOM_MODEL_ID not set in .env file."
    ELSE IF check = "phi4_credentials" THEN "ERROR: Missing Phi-4 credentials in .env"
    ELSE IF check = "file"
    THEN (IF invocation.prog = "analyze_with_phi4"
          THEN "error: the following arguments are required: file"
          ELSE IF invocation.prog = "custom_extract_model"
          THEN "error: A PDF file path is required for analyze mode."
          ELSE "Usage")
    ELSE "ERROR: File not found"

\* The order of the checks as the claim gives it, and as each script has it.
ClaimedOrder ==
    <<"credentials", "classifier_id", "model_id", "phi4_credentials", "file", "exists">>
OrderOf(prog) ==
    IF prog = "analyze_with_phi4"
    THEN <<"file", "exists", "credentials", "phi4_credentials">>
    ELSE IF prog = "custom_extract_model"
    THEN <<"credentials", "file", "model_id", "exists">>
    ELSE ClaimedOrder

PreconditionsMet == \A k \in 1..Len(ClaimedOrder) : ~Unmet(ClaimedOrder[k])

\* The first precondition of the order that the run does not meet.
FirstUnmet(order) == order[Least({k \in 1..Len(order) : Unmet(order[k])})]

\* The run is past its checks: about to send a request, or further.
PastChecks ==
    script.pc \in {"request", "result", "extract_layout_text", "call_phi4",
                   "answer", "documents", "return", "done"}

(* C24 as claimed: in every script the remote analysis or classification
   request is sent only after all precondition checks passed in order
   (credentials and, where used, classifier id, model id or Phi-4
   credentials; then the file argument; then the file's existence); if any
   check fails the script exits with status 1, on the first check of that
   order that fails, and no request to any remote service is made. *)
C24_ExitStatusOneOnFailedCheck ==
    AnalysisRun =>
        /\ (PastChecks \/ script.requests # <<>>) => PreconditionsMet
        /\ script.pc = "exited" =>
               /\ ~PreconditionsMet
               /\ script.requests = <<>>
               /\ script.status = Some(1)
               /\ LastPrinted = Message(MessageOf(FirstUnmet(ClaimedOrder)))

(* C24: in every script the remote analysis or classification request is
   sent only after all precondition checks of the script passed: the
   credentials (and, where used, classifier id, model id or Phi-4
   credentials) are present and non-empty, a file argument was given, and
   the file exists.  The checks are made in the script's own order
   (analyze_with_phi4 checks the file argument and the file before the
   credentials, custom_extract_model the file argument before the model
   id); the first that fails ends the run with no request to any remote
   service made, with exit status 1, or 2 when it is argparse that rejects
   the missing file argument (analyze_with_phi4, custom_extract_model). *)
C24_NoRequestUnlessChecksPassed ==
    AnalysisRun =>
        /\ (PastChecks \/ script.requests # <<>>) => PreconditionsMet
        /\ script.pc = "exited" =>
               /\ ~PreconditionsMet
               /\ script.requests = <<>>
               /\ LET failed == FirstUnmet(OrderOf(invocation.prog))
                  IN /\ LastPrinted = Message(MessageOf(failed))
                     /\ script.status =
                            (IF failed = "file" /\ invocation.prog \in ArgparseScripts
                             THEN Some(2) ELSE Some(1))

C24_Witness_FileCheckedBeforeCredentials ==
    /\ AnalysisRun
    /\ invocation.prog = "analyze_with_phi4"
    /\ Unmet("credentials")
    /\ Unmet("exists")
    /\ ~Unmet("file")
    /\ script.pc = "exited"
    /\ script.status = Some(1)
    /\ LastPrinted = Message("ERROR: File not found")

---------------------------------------------------------------------------
(* The field groups of custom_extract_model.py *)

\* Some keyword of the c-th category occurs in the field name, case ignored.
KeywordOccurs(c, field_name) ==
    LET name == Lower(field_name)
    IN \E kw \in Range(categories[c].keywords) : Contains(Lower(kw), name)

\* The heading the claim gives the field.
ExpectedHeading(field_name) ==
    IF KeywordOccurs(1, field_name) THEN "[Document Metadata]"
    ELSE IF KeywordOccurs(2, field_name) THEN "[Member Applicability]"
    ELSE IF KeywordOccurs(3, field_name) THEN "[Supplier Forms]"
    ELSE "[Other Fields]"

\* The d-th document of the analysis has been printed.
DocumentPrinted(d) ==
    /\ invocation # None
    /\ invocation.prog = "custom_extract_model"
    /\ invocation.mode = "analyze"
    /\ d \in 1..Len(invocation.documents)
    /\ \/ script.pc \in {"return", "done"}
       \/ script.pc = "documents" /\ d < script.doc_idx

\* The groups printed for the d-th document, and the places <<k, i>> (i-th
\* name of the k-th group) at which they list the field name.
GroupsOf(d) == SelectSeq(script.printed, LAMBDA e : e.doc = d /\ e.fields # <<>>)
PlacesIn(groups, field_name) ==
    {ki \in UNION {{<<k, i>> : i \in 1..Len(groups[k].fields)} : k \in 1..Len(groups)} :
         groups[ki[1]].fields[ki[2]] = field_name}

(* C25: when the custom-model analysis groups a document's extracted fields
   for output, every field is placed in exactly one group: the first
   category, in the fixed order Document Metadata, Member Applicability,
   Supplier Forms, that has a keyword occurring case-insensitively as a
   substring of the field name, or Other Fields when no category matches; no
   field is dropped or listed twice, and nothing else is listed. *)
C25_EveryFieldInItsOneGroup ==
    invocation # None =>
        \A d \in 1..Len(invocation.documents) :
            DocumentPrinted(d) =>
                LET groups == GroupsOf(d)
                IN /\ \A f \in Range(invocation.documents[d]) :
                          LET places == PlacesIn(groups, f)
                          IN /\ Cardinality(places) = 1
                             /\ \A ki \in places :
                                    groups[ki[1]].heading = ExpectedHeading(f)
                   /\ \A k \in 1..Len(groups) :
                          Range(groups[k].fields) \subseteq Range(invocation.documents[d])

C25_Witness_FieldOfTwoCategoriesInTheFirst ==
    \E d \in 1..2 :
        /\ DocumentPrinted(d)
        /\ invocation.documents[d] = <<"Notes", "SupplierFormDate", "memberapplicability">>
        /\ GroupsOf(d) = <<Group(d, "[Document Metadata]", <<"SupplierFormDate">>),
                           Group(d, "[Member Applicability]", <<"memberapplicability">>),
                           Group(d, "[Other Fields]", <<"Notes">>)>>

=============================================================================
